---- MODULE Spec2Model ----
(***************************************************************************)
(* Model of the zustand user store (src/src/store/userStore.ts).           *)
(*                                                                         *)
(* The store holds four slots (users, loading, error, selectedUser) and    *)
(* four operations.  The two fetch operations are async functions: each    *)
(* runs synchronously up to its `await axios.get(...)`, is suspended while *)
(* the request is in flight, and resumes with one more `set` when the      *)
(* transport answers.  JavaScript is single threaded, so a synchronous     *)
(* section is never interleaved with anything else; every `set` inside it  *)
(* is nevertheless a store state of its own (zustand notifies subscribers  *)
(* on each set), which is why a synchronous section is modelled as a run   *)
(* of steps guarded by `cur`.                                              *)
(***************************************************************************)
EXTENDS Integers, Sequences, FiniteSets, TLC

VARIABLES users, loading, error, selectedUser, calls, cur, started, requests, last,
          route

vars == <<users, loading, error, selectedUser, calls, cur, started, requests, last,
          route>>

-----------------------------------------------------------------------------
(* Bounds and data                                                         *)

\* Number of fetchUsers / fetchUserById calls made in one behaviour.
MaxCalls == 3

\* User ids known to the remote source, and the revisions of a record the
\* remote source may serve (a record is replaced wholesale, never mutated).
Ids == {1, 2}
Revs == {"a", "b"}

\* interface User: identity plus the rest of the payload (one opaque field).
UserRecords == [id : Ids, rev : Revs]

\* `null` in a User | null slot, and in the string | null error slot.
NoUser == [id |-> 0, rev |-> "null"]
NoError == "null"

\* GET /users answers: every duplicate-free ordering of records (an id is
\* unique within one fetch of the collection).
ListResponses ==
    {<<>>}
    \cup {<<u>> : u \in UserRecords}
    \cup {<<u, v>> : <<u, v>> \in {p \in UserRecords \X UserRecords : p[1].id # p[2].id}}

\* JSON bodies: null, an array of users, one user object.
NullBody == [tag |-> "null", items |-> <<>>, user |-> NoUser]
ArrayBody(l) == [tag |-> "array", items |-> l, user |-> NoUser]
ObjectBody(u) == [tag |-> "object", items |-> <<>>, user |-> u]

\* What the transport can deliver for one axios.get: a 2xx answer with a body,
\* a non-2xx status, or no answer at all (network failure).
OkResponse(b) == [kind |-> "ok", body |-> b]
StatusFailure == [kind |-> "status", body |-> NullBody]
NetworkFailure == [kind |-> "network", body |-> NullBody]
NoResponse == [kind |-> "none", body |-> NullBody]

-----------------------------------------------------------------------------
(* Route parameters and numbers                                            *)

\* The :id parameter of the route /user/:id, as a sequence of characters.
RouteIds == {<<"1">>, <<"2">>, <<"7">>, <<"2", "x">>, <<"a", "b", "c">>}

\* The number NaN; every other number of the model is an integer, and no
\* integer a route parameter of the model parses to comes near this one.
NaN == -1000000

IsNaN(n) == n = NaN

Digits == {"0", "1", "2", "3", "4", "5", "6", "7", "8", "9"}

DigitValue(ch) ==
    CASE ch = "0" -> 0 [] ch = "1" -> 1 [] ch = "2" -> 2 [] ch = "3" -> 3
      [] ch = "4" -> 4 [] ch = "5" -> 5 [] ch = "6" -> 6 [] ch = "7" -> 7
      [] ch = "8" -> 8 [] ch = "9" -> 9

\* The value of the longest prefix of digits of text, after acc.
RECURSIVE ParseDigits(_, _)
ParseDigits(text, acc) ==
    IF text = <<>> \/ Head(text) \notin Digits THEN acc
    ELSE ParseDigits(Tail(text), 10 * acc + DigitValue(Head(text)))

\* parseInt(text, 10): leading blanks are skipped, a sign is honoured, the
\* digits that follow are read up to the first other character, and a text
\* with no digit in that place gives NaN.
RECURSIVE ParseInt(_)
ParseInt(text) ==
    IF text = <<>> THEN NaN
    ELSE IF Head(text) = " " THEN ParseInt(Tail(text))
    ELSE IF Head(text) \in {"-", "+"}
    THEN IF Tail(text) = <<>> \/ Head(Tail(text)) \notin Digits THEN NaN
         ELSE IF Head(text) = "-" THEN 0 - ParseDigits(Tail(text), 0)
         ELSE ParseDigits(Tail(text), 0)
    ELSE IF Head(text) \notin Digits THEN NaN
    ELSE ParseDigits(text, 0)

\* `${n}` in a template literal.
NumberText(n) == IF IsNaN(n) THEN "NaN" ELSE ToString(n)

\* `${n}` as a route parameter (the ids a list holds have one digit here).
NumberChars(n) == <<ToString(n)>>

\* Every number fetchUserById can be called with in the model.
CallableIds == Ids \cup {ParseInt(rid) : rid \in RouteIds}

\* API_BASE_URL-relative request targets.
UsersUrl == "/users"
UserUrl(id) == "/users/" \o NumberText(id)
Urls == {UsersUrl} \cup {UserUrl(id) : id \in CallableIds}

-----------------------------------------------------------------------------
(* The store as a value, and the patches the code applies with set(...)    *)

Store == [users |-> users, loading |-> loading, error |-> error,
          selectedUser |-> selectedUser]

SetStore(s) ==
    /\ users' = s.users
    /\ loading' = s.loading
    /\ error' = s.error
    /\ selectedUser' = s.selectedUser

\* A start of fetchUsers that keeps the error it finds.
FetchUsersStartKeepingError(s) == [s EXCEPT !.loading = TRUE]

\* fetchUsers: set({ loading: true, error: null })
FetchUsersStartOf(s) == [s EXCEPT !.loading = TRUE, !.error = NoError]

\* A start of fetchUserById that keeps the error it finds.
FetchUserByIdStartKeepingError(s) == [s EXCEPT !.loading = TRUE]

\* fetchUserById: set({ loading: true, error: null })
FetchUserByIdStartOf(s) == [s EXCEPT !.loading = TRUE, !.error = NoError]

\* A success handler that drops the selection along with the old list.
UsersSuccessDeselecting(s, data) ==
    [s EXCEPT !.users = data, !.selectedUser = NoUser, !.loading = FALSE,
              !.error = NoError]

\* A success handler that merges the answer into the list it already holds.
UsersSuccessMerging(s, data) ==
    [s EXCEPT !.users = @ \o data, !.loading = FALSE, !.error = NoError]

\* set({ users: response.data, loading: false, error: null })
UsersSuccessOf(s, data) ==
    [s EXCEPT !.users = data, !.loading = FALSE, !.error = NoError]

UsersErrorMessage == "Failed to fetch users. Please try again."

\* A failure handler that also drops the list.
UsersFailureDropping(s) ==
    [s EXCEPT !.users = <<>>, !.loading = FALSE, !.error = UsersErrorMessage]

\* A failure handler that forgets to lower the loading flag.
UsersFailureStillLoading(s) == [s EXCEPT !.error = UsersErrorMessage]

\* set({ loading: false, error: 'Failed to fetch users. Please try again.' })
UsersFailureOf(s) == [s EXCEPT !.loading = FALSE, !.error = UsersErrorMessage]

\* A lookup that never finds anything.
FindNothing(list, id) == NoUser

\* get().users.find(user => user.id === id): first match, or NoUser.
RECURSIVE Find(_, _)
Find(list, id) ==
    IF list = <<>> THEN NoUser
    ELSE IF Head(list).id = id THEN Head(list)
    ELSE Find(Tail(list), id)

\* A cache hit that forgets to lower the loading flag.
CacheHitStillLoading(s, existingUser) == [s EXCEPT !.selectedUser = existingUser]

\* set({ selectedUser: existingUser, loading: false })
CacheHitOf(s, existingUser) ==
    [s EXCEPT !.selectedUser = existingUser, !.loading = FALSE]

\* A success handler that leaves the error slot as it finds it.
UserSuccessKeepingError(s, data) ==
    [s EXCEPT !.selectedUser = data, !.loading = FALSE]

\* A success handler that gives way to a selection made in the meantime.
UserSuccessKeepingSelection(s, data) ==
    [s EXCEPT !.selectedUser = IF @ = NoUser THEN data ELSE @,
              !.loading = FALSE, !.error = NoError]

\* A success handler that writes the fetched user back into the list.
UserSuccessMerging(s, data) ==
    [s EXCEPT !.selectedUser = data, !.users = Append(@, data),
              !.loading = FALSE, !.error = NoError]

\* set({ selectedUser: response.data, loading: false, error: null })
UserSuccessOf(s, data) ==
    [s EXCEPT !.selectedUser = data, !.loading = FALSE, !.error = NoError]

UserErrorMessage(id) ==
    "Failed to fetch user with ID " \o NumberText(id) \o ". Please try again."

\* A failure handler that forgets to lower the loading flag.
UserFailureStillLoading(s, id) ==
    [s EXCEPT !.error = UserErrorMessage(id), !.selectedUser = NoUser]

\* set({ loading: false, error: `Failed ... ${id} ...`, selectedUser: null })
UserFailureOf(s, id) ==
    [s EXCEPT !.loading = FALSE, !.error = UserErrorMessage(id),
              !.selectedUser = NoUser]

\* A clearError that resets the loading flag as well.
ClearErrorAndLoading(s) == [s EXCEPT !.error = NoError, !.loading = FALSE]

\* set({ error: null })
ClearErrorOf(s) == [s EXCEPT !.error = NoError]

\* A setSelectedUser that acknowledges the error as well.
SetSelectedUserClearing(s, user) ==
    [s EXCEPT !.selectedUser = user, !.error = NoError]

\* set({ selectedUser: user })
SetSelectedUserOf(s, user) == [s EXCEPT !.selectedUser = user]

-----------------------------------------------------------------------------
(* The try blocks                                                          *)

\* A try block that takes every 2xx answer as data, whatever its body.
ThrowsOnRejectionOnly(resp) == resp.kind # "ok"

\* `await axios.get(...)` throws on a network failure and on a non-2xx
\* status; the console.log right after it reads response.data.length /
\* response.data.username and throws a TypeError on a null body.
Throws(resp) == resp.kind # "ok" \/ resp.body.tag = "null"

\* A catch block that rethrows.
SettleRethrowing(threw) == IF threw THEN "rejected" ELSE "fulfilled"

\* Both functions catch everything thrown inside try and return normally, so
\* the promise an async call returns is fulfilled whatever happened.
Settle(threw) == "fulfilled"

\* The id of the call made most recently, whichever call is resuming.
ErrorIdOfLatest(c) == calls[Len(calls)].id

\* The id interpolated into the failure message is the parameter of the call
\* that is resuming.
ErrorIdOf(c) == calls[c].id

-----------------------------------------------------------------------------
(* Calls                                                                   *)

\* One record per call of an async operation that has not returned yet, in
\* the order the calls were made.  pc is the position of the call;
\* usersAtCall, overtaken, listCommitted and superseded are history: the
\* value of users when a fetchUsers call was made, whether any call completed
\* since this one started, whether a list fetch committed since this one
\* started, and whether a newer fetchUserById call or a setSelectedUser was
\* made since this fetchUserById call started.
NewCall(op, id) ==
    [op |-> op, id |-> id, pc |-> IF op = "fetchUsers" THEN "issue" ELSE "lookup",
     promise |-> "pending", outcome |-> "none",
     usersAtCall |-> IF op = "fetchUsers" THEN users ELSE <<>>,
     overtaken |-> FALSE, listCommitted |-> FALSE, superseded |-> FALSE]

NoCall ==
    [op |-> "none", id |-> 0, pc |-> "none", promise |-> "none", outcome |-> "none",
     usersAtCall |-> <<>>, overtaken |-> FALSE, listCommitted |-> FALSE,
     superseded |-> FALSE]

\* The calls in flight once a newer selection has been asked for.
Superseding(cs) ==
    [k \in DOMAIN cs |->
        IF cs[k].op = "fetchUserById" THEN [cs[k] EXCEPT !.superseded = TRUE]
        ELSE cs[k]]

CallIds == 1..Len(calls)

\* The observation of the step just taken: the operation, the call it belongs
\* to (as the step left it), the argument of setSelectedUser, the answer of
\* the transport, and the error slot as the step found it.
Last(op, call, u, resp) ==
    [op |-> op, call |-> call, u |-> u, resp |-> resp, errorBefore |-> error]

\* The call c as it returns.
Returned(c, outcome, threw) ==
    [calls[c] EXCEPT !.pc = "done", !.outcome = outcome, !.promise = Settle(threw)]

\* The calls left in flight when c returns, each marked as overtaken.
RECURSIVE Remaining(_, _, _)
Remaining(cs, c, committedList) ==
    IF cs = <<>> THEN <<>>
    ELSE IF c = 1 THEN Remaining(Tail(cs), 0, committedList)
    ELSE <<[Head(cs) EXCEPT !.overtaken = TRUE,
                            !.listCommitted = @ \/ committedList]>>
         \o Remaining(Tail(cs), c - 1, committedList)

\* The target a call asks for.
UrlOf(call) == IF call.op = "fetchUsers" THEN UsersUrl ELSE UserUrl(call.id)

\* A request that is dropped when the same target is already being awaited.
IssueDeduplicated(url) ==
    requests' = IF \E c \in CallIds : calls[c].pc = "await" /\ UrlOf(calls[c]) = url
                THEN requests
                ELSE [requests EXCEPT ![url] = @ + 1]

\* The request counter of one target goes up by one.
Issue(url) == requests' = [requests EXCEPT ![url] = @ + 1]

\* The page the router shows: none yet, the list, or the detail view of an id.
NoRoute == [page |-> "none", id |-> <<>>]
ListRoute == [page |-> "list", id |-> <<>>]
DetailRoute(rid) == [page |-> "detail", id |-> rid]

Init ==
    /\ users = <<>>
    /\ loading = FALSE
    /\ error = NoError
    /\ selectedUser = NoUser
    /\ calls = <<>>
    /\ cur = 0
    /\ started = 0
    /\ requests = [url \in Urls |-> 0]
    /\ last = [op |-> "init", call |-> NoCall, u |-> NoUser, resp |-> NoResponse,
               errorBefore |-> NoError]
    /\ route = NoRoute

\* fetchUsers(), line 80.
FetchUsersStart ==
    /\ cur = 0
    /\ started < MaxCalls
    /\ SetStore(FetchUsersStartOf(Store))
    /\ calls' = Append(calls, NewCall("fetchUsers", 0))
    /\ cur' = Len(calls) + 1
    /\ started' = started + 1
    /\ last' = Last("fetchUsers.start", NewCall("fetchUsers", 0), NoUser, NoResponse)
    /\ UNCHANGED requests

\* fetchUsers(), line 84: the request goes out and the call is suspended.
FetchUsersIssue ==
    /\ cur # 0
    /\ calls[cur].pc = "issue"
    /\ Issue(UsersUrl)
    /\ calls' = [calls EXCEPT ![cur].pc = "await"]
    /\ cur' = 0
    /\ last' = Last("fetchUsers.issue", calls'[cur], NoUser, NoResponse)
    /\ UNCHANGED <<users, loading, error, selectedUser, started>>

\* fetchUsers(), lines 84-98: the transport answers and the call resumes.
FetchUsersResume(c, resp) ==
    /\ cur = 0
    /\ calls[c].op = "fetchUsers"
    /\ calls[c].pc = "await"
    /\ IF Throws(resp)
       THEN /\ SetStore(UsersFailureOf(Store))
            /\ calls' = Remaining(calls, c, FALSE)
            /\ last' = Last("fetchUsers.resume", Returned(c, "failure", TRUE),
                            NoUser, resp)
       ELSE /\ SetStore(UsersSuccessOf(Store, resp.body.items))
            /\ calls' = Remaining(calls, c, TRUE)
            /\ last' = Last("fetchUsers.resume", Returned(c, "success", FALSE),
                            NoUser, resp)
    /\ UNCHANGED <<cur, started, requests>>

\* fetchUserById(id), line 111.
FetchUserByIdStart(id) ==
    /\ cur = 0
    /\ started < MaxCalls
    /\ SetStore(FetchUserByIdStartOf(Store))
    /\ calls' = Append(Superseding(calls), NewCall("fetchUserById", id))
    /\ cur' = Len(calls) + 1
    /\ started' = started + 1
    /\ last' = Last("fetchUserById.start", NewCall("fetchUserById", id), NoUser,
                    NoResponse)
    /\ UNCHANGED requests

\* fetchUserById(id), lines 115-128: the cache lookup; a hit completes the
\* call, a miss sends the request and suspends the call.
FetchUserByIdLookup ==
    /\ cur # 0
    /\ calls[cur].pc = "lookup"
    /\ LET existingUser == Find(users, calls[cur].id) IN
       IF existingUser # NoUser
       THEN /\ SetStore(CacheHitOf(Store, existingUser))
            /\ calls' = Remaining(calls, cur, FALSE)
            /\ last' = Last("fetchUserById.lookup", Returned(cur, "hit", FALSE),
                            NoUser, NoResponse)
            /\ UNCHANGED requests
       ELSE /\ Issue(UserUrl(calls[cur].id))
            /\ calls' = [calls EXCEPT ![cur].pc = "await"]
            /\ last' = Last("fetchUserById.lookup", calls'[cur], NoUser, NoResponse)
            /\ UNCHANGED <<users, loading, error, selectedUser>>
    /\ cur' = 0
    /\ UNCHANGED started

\* fetchUserById(id), lines 128-143: the transport answers and the call resumes.
FetchUserByIdResume(c, resp) ==
    /\ cur = 0
    /\ calls[c].op = "fetchUserById"
    /\ calls[c].pc = "await"
    /\ IF Throws(resp)
       THEN /\ SetStore(UserFailureOf(Store, ErrorIdOf(c)))
            /\ last' = Last("fetchUserById.resume", Returned(c, "failure", TRUE),
                            NoUser, resp)
       ELSE /\ SetStore(UserSuccessOf(Store, resp.body.user))
            /\ last' = Last("fetchUserById.resume", Returned(c, "success", FALSE),
                            NoUser, resp)
    /\ calls' = Remaining(calls, c, FALSE)
    /\ UNCHANGED <<cur, started, requests>>

\* clearError(), line 152.
ClearError ==
    /\ cur = 0
    /\ SetStore(ClearErrorOf(Store))
    /\ last' = Last("clearError", NoCall, NoUser, NoResponse)
    /\ UNCHANGED <<calls, cur, started, requests>>

\* setSelectedUser(user), line 162.
SetSelectedUser(user) ==
    /\ cur = 0
    /\ SetStore(SetSelectedUserOf(Store, user))
    /\ last' = Last("setSelectedUser", NoCall, user, NoResponse)
    /\ calls' = Superseding(calls)
    /\ UNCHANGED <<cur, started, requests>>

\* Answers of the two endpoints.
ListAnswers ==
    {OkResponse(ArrayBody(l)) : l \in ListResponses}
    \cup {OkResponse(NullBody), StatusFailure, NetworkFailure}

UserAnswers(id) ==
    {OkResponse(ObjectBody(u)) : u \in {v \in UserRecords : v.id = id}}
    \cup {OkResponse(NullBody), StatusFailure, NetworkFailure}

\* The store under any caller of its four operations (no view is mounted).
Next ==
    \/ FetchUsersStart /\ UNCHANGED route
    \/ FetchUsersIssue /\ UNCHANGED route
    \/ /\ \E c \in CallIds : \E resp \in ListAnswers : FetchUsersResume(c, resp)
       /\ UNCHANGED route
    \/ /\ \E id \in Ids : FetchUserByIdStart(id)
       /\ UNCHANGED route
    \/ FetchUserByIdLookup /\ UNCHANGED route
    \/ /\ \E c \in CallIds : \E resp \in UserAnswers(calls[c].id) :
             FetchUserByIdResume(c, resp)
       /\ UNCHANGED route
    \/ ClearError /\ UNCHANGED route
    \/ /\ \E user \in UserRecords \cup {NoUser} : SetSelectedUser(user)
       /\ UNCHANGED route

Spec == Init /\ [][Next]_vars

\* The transport answers some awaited request.
Answer ==
    /\ \/ \E c \in CallIds : \E resp \in ListAnswers : FetchUsersResume(c, resp)
       \/ \E c \in CallIds : \E resp \in UserAnswers(calls[c].id) :
             FetchUserByIdResume(c, resp)
    /\ UNCHANGED route

\* A synchronous section runs to its end (nothing preempts JavaScript code),
\* and the transport answers every request it was given, sooner or later.
FairSpec ==
    /\ Spec
    /\ WF_vars(FetchUsersIssue /\ UNCHANGED route)
    /\ WF_vars(FetchUserByIdLookup /\ UNCHANGED route)
    /\ WF_vars(Answer)

-----------------------------------------------------------------------------
(* The views (src/src/components): the only callers of the store in the    *)
(* application.                                                            *)

\* UserList mounts (the app opens on "/", or UserDetail's Back button
\* navigates there): its effect calls fetchUsers().
ListMount ==
    /\ FetchUsersStart
    /\ route' = ListRoute

\* UserList, Retry button (rendered while error is set): clearError();
\* fetchUsers().
ListRetry ==
    /\ route.page = "list"
    /\ error # NoError
    /\ cur = 0
    /\ started < MaxCalls
    /\ SetStore(FetchUsersStartOf(ClearErrorOf(Store)))
    /\ calls' = Append(calls, NewCall("fetchUsers", 0))
    /\ cur' = Len(calls) + 1
    /\ started' = started + 1
    /\ last' = Last("fetchUsers.start", NewCall("fetchUsers", 0), NoUser, NoResponse)
    /\ UNCHANGED <<requests, route>>

\* UserDetail mounts on /user/:id (a card of the list was clicked, or the
\* router was given the location): its effect parses the parameter and calls
\* fetchUserById unless the result is NaN, in which case it only shows a
\* toast.
DetailMount(rid) ==
    /\ cur = 0
    /\ route' = DetailRoute(rid)
    /\ LET userId == ParseInt(rid) IN
       IF rid # <<>> /\ ~IsNaN(userId)
       THEN FetchUserByIdStart(userId)
       ELSE /\ last' = Last("UserDetail.invalidId", NoCall, NoUser, NoResponse)
            /\ UNCHANGED <<users, loading, error, selectedUser, calls, cur, started,
                           requests>>

\* UserList, click on a card (the grid is rendered when nothing is loading
\* and no error is set): navigate(`/user/${user.id}`).
UserClick(i) ==
    /\ route.page = "list"
    /\ loading = FALSE
    /\ error = NoError
    /\ i \in DOMAIN users
    /\ DetailMount(NumberChars(users[i].id))

\* UserDetail, Retry button (rendered when nothing is loading, an error is
\* set and no user is selected): parseInt, clearError(), fetchUserById().
DetailRetry ==
    /\ route.page = "detail"
    /\ loading = FALSE
    /\ error # NoError
    /\ selectedUser = NoUser
    /\ route.id # <<>>
    /\ cur = 0
    /\ started < MaxCalls
    /\ LET userId == ParseInt(route.id) IN
       /\ SetStore(FetchUserByIdStartOf(ClearErrorOf(Store)))
       /\ calls' = Append(Superseding(calls), NewCall("fetchUserById", userId))
       /\ last' = Last("fetchUserById.start", NewCall("fetchUserById", userId),
                       NoUser, NoResponse)
    /\ cur' = Len(calls) + 1
    /\ started' = started + 1
    /\ UNCHANGED <<requests, route>>

\* The application: the views call the store, the store runs its calls.
ViewNext ==
    \/ ListMount
    \/ ListRetry
    \/ \E rid \in RouteIds : DetailMount(rid)
    \/ \E i \in DOMAIN users : UserClick(i)
    \/ DetailRetry
    \/ FetchUsersIssue /\ UNCHANGED route
    \/ FetchUserByIdLookup /\ UNCHANGED route
    \/ Answer

ViewSpec == Init /\ [][ViewNext]_vars

-----------------------------------------------------------------------------
(* Properties                                                              *)

\* The transport answer is one the remote call failed with: no answer, a
\* non-2xx status, or a 2xx answer without a usable body.
AnswerFailed(resp) ==
    \/ resp.kind \in {"status", "network"}
    \/ resp.kind = "ok" /\ resp.body.tag = "null"

UsersResumed == last.op = "fetchUsers.resume"
UserResumed == last.op = "fetchUserById.resume"

\* C1: in the state right after a fetchUsers call completes successfully,
\* loading is false, error is empty and users is exactly the answered
\* collection, in the answered order, with nothing left of the previous list.
C1_FetchUsersSuccess ==
    (UsersResumed /\ last.resp.kind = "ok" /\ last.resp.body.tag = "array")
        => /\ loading = FALSE
           /\ error = NoError
           /\ users = last.resp.body.items

\* A successful list fetch replaced a non-empty list by a two-element answer
\* that starts with id 2.
C1_Witness ==
    /\ UsersResumed
    /\ last.resp.kind = "ok" /\ last.resp.body.tag = "array"
    /\ last.call.usersAtCall # <<>>
    /\ Len(users) = 2 /\ users[1].id = 2
    /\ last.call.usersAtCall # users

\* C2 as stated: after a failed fetchUsers call loading is false, error is the
\* fixed message and users equals the value it had when the call was made.
C2_AsStated ==
    (UsersResumed /\ AnswerFailed(last.resp))
        => /\ loading = FALSE
           /\ error = "Failed to fetch users. Please try again."
           /\ users = last.call.usersAtCall

\* C2 amended: after a failed fetchUsers call loading is false, error is the
\* fixed message and users is what it was just before the failure was handled;
\* that is the value it had when the call was made unless another fetchUsers
\* call succeeded in between.
C2_FetchUsersFailure ==
    [][(last'.op = "fetchUsers.resume" /\ AnswerFailed(last'.resp))
        => /\ loading' = FALSE
           /\ error' = "Failed to fetch users. Please try again."
           /\ users' = users
           /\ (~last'.call.listCommitted => users' = last'.call.usersAtCall)]_vars

\* A list fetch failed while the store held a non-empty list, with no other
\* list fetch committed since the call was made.
C2_Witness ==
    /\ UsersResumed
    /\ AnswerFailed(last.resp)
    /\ users # <<>>
    /\ ~last.call.listCommitted
    /\ users = last.call.usersAtCall

\* C3: a fetchUserById(id) call made while users holds a record with that id
\* issues no request, selects that record of users and returns with loading
\* false; this is so for every such call, however many were made before.
C3_CacheHit ==
    [][(/\ last'.op = "fetchUserById.lookup"
        /\ \E i \in DOMAIN users : users[i].id = last'.call.id)
        => /\ requests' = requests
           /\ \E i \in DOMAIN users :
                 users[i].id = last'.call.id /\ selectedUser' = users[i]
           /\ loading' = FALSE
           /\ last'.call.pc = "done"
           /\ last'.call.promise = "fulfilled"]_vars

\* The third call of a behaviour was a cache hit: its id is in users, no
\* request ever went to the single-user endpoint for it.
C3_Witness ==
    /\ last.op = "fetchUserById.lookup"
    /\ last.call.outcome = "hit"
    /\ started = MaxCalls
    /\ selectedUser.id = last.call.id
    /\ requests[UserUrl(last.call.id)] = 0

\* C4: when a fetchUserById call that went to the network is answered with a
\* user, selectedUser is that user, loading is false, error is empty, and
\* users is left as it was (the user is not merged into the list).
C4_CacheMissSuccess ==
    [][(/\ last'.op = "fetchUserById.resume"
        /\ last'.resp.kind = "ok" /\ last'.resp.body.tag = "object")
        => /\ selectedUser' = last'.resp.body.user
           /\ loading' = FALSE
           /\ error' = NoError
           /\ users' = users]_vars

\* A user absent from a non-empty list was fetched and selected.
C4_Witness ==
    /\ UserResumed
    /\ last.resp.kind = "ok" /\ last.resp.body.tag = "object"
    /\ users # <<>>
    /\ \A i \in DOMAIN users : users[i].id # selectedUser.id
    /\ selectedUser = last.resp.body.user

\* The failure message of fetchUserById for the ids of the model, spelled out.
ExpectedUserMessage(id) ==
    IF id = 1 THEN "Failed to fetch user with ID 1. Please try again."
    ELSE IF id = 2 THEN "Failed to fetch user with ID 2. Please try again."
    ELSE IF IsNaN(id) THEN "Failed to fetch user with ID NaN. Please try again."
    ELSE "Failed to fetch user with ID " \o ToString(id) \o ". Please try again."

\* C5: after a fetchUserById(id) call whose remote call failed, selectedUser
\* is empty, loading is false and error is the message with the id of that
\* same call.
C5_FetchUserFailure ==
    (UserResumed /\ AnswerFailed(last.resp))
        => /\ selectedUser = NoUser
           /\ loading = FALSE
           /\ error = ExpectedUserMessage(last.call.id)

\* fetchUserById(1) failed while a later fetchUserById(2) was still in flight.
C5_Witness ==
    /\ UserResumed
    /\ AnswerFailed(last.resp)
    /\ last.call.id = 1
    /\ error = "Failed to fetch user with ID 1. Please try again."
    /\ \E c \in CallIds : calls[c].op = "fetchUserById" /\ calls[c].id = 2

\* C6 as stated: loading is true exactly when at least one fetch call has
\* started and not yet returned.
C6_AsStated == loading <=> (calls # <<>>)

\* C6 amended: loading is true exactly when some fetch call is in flight that
\* started after the last return of any fetch call; so it is never true with
\* nothing in flight, and it is false while a fetch is in flight once another
\* fetch call has returned after that fetch started.
C6_LoadingFollowsLatestEvent ==
    /\ loading <=> (\E c \in CallIds : ~calls[c].overtaken)
    /\ loading => calls # <<>>

\* A request is in flight, between two steps, and loading is already false.
C6_Witness ==
    /\ cur = 0
    /\ loading = FALSE
    /\ \E c \in CallIds : calls[c].pc = "await" /\ calls[c].overtaken

\* C7: a fetch call never hands a failure to its caller: whatever the
\* transport answers, the call returns normally, and a failed remote call
\* shows only as a non-empty error slot.
C7_NoThrow ==
    /\ last.call.pc = "done" => last.call.promise = "fulfilled"
    /\ \A c \in CallIds : calls[c].promise = "pending"
    /\ ((UsersResumed \/ UserResumed) /\ AnswerFailed(last.resp))
          => error # NoError /\ last.call.pc = "done"

\* Calls have returned after a network failure, a non-2xx status and a null
\* body.
C7_WitnessNetwork ==
    /\ last.call.pc = "done" /\ last.resp.kind = "network"
    /\ last.call.promise = "fulfilled"

\* C8: clearError empties error and leaves users, selectedUser and loading as
\* they were; with error already empty it changes nothing, and applying it to
\* its own result changes nothing.
C8_ClearError ==
    [][last'.op = "clearError"
        => /\ error' = NoError
           /\ UNCHANGED <<users, selectedUser, loading>>
           /\ (error = NoError => UNCHANGED <<users, selectedUser, loading, error>>)
           /\ ClearErrorOf(ClearErrorOf(Store)) = ClearErrorOf(Store)
           /\ ClearErrorOf(ClearErrorOf(Store)) = Store']_vars

\* clearError acknowledged an error while a fetch was in flight, the list was
\* loaded and a user was selected.
C8_Witness ==
    /\ last.op = "clearError"
    /\ last.errorBefore # NoError
    /\ error = NoError
    /\ calls # <<>>
    /\ users # <<>>
    /\ selectedUser # NoUser

\* C9: setSelectedUser(u) leaves selectedUser = u, for a user and for empty
\* alike, and leaves users, loading and error as they were.
C9_SetSelectedUser ==
    [][last'.op = "setSelectedUser"
        => /\ selectedUser' = last'.u
           /\ UNCHANGED <<users, loading, error>>]_vars

\* setSelectedUser overwrote the selection while an error was stored and the
\* list was loaded.
C9_Witness ==
    /\ last.op = "setSelectedUser"
    /\ last.u # NoUser
    /\ selectedUser = last.u
    /\ error # NoError
    /\ users # <<>>

\* C10: the first step of every fetchUsers and fetchUserById call raises
\* loading and empties error, whatever error was stored, before the call
\* issues a request or looks into users.
C10_StartClearsError ==
    [][last'.op \in {"fetchUsers.start", "fetchUserById.start"}
        => /\ loading' = TRUE
           /\ error' = NoError
           /\ requests' = requests
           /\ UNCHANGED <<users, selectedUser>>
           /\ cur' # 0
           /\ calls'[cur'].pc = (IF last'.op = "fetchUsers.start"
                                 THEN "issue" ELSE "lookup")]_vars

\* fetchUserById started over the error a failed list fetch had left.
C10_WitnessAcross ==
    /\ last.op = "fetchUserById.start"
    /\ last.errorBefore = "Failed to fetch users. Please try again."
    /\ error = NoError
    /\ loading = TRUE

\* C11: every kind of fetch failure has the same effect: a transport failure,
\* a non-2xx status and a 2xx answer with a null body all leave the store as
\* it was except for loading = false, the fixed message of the operation and,
\* for fetchUserById, an empty selectedUser; none is committed as data.
C11_UniformFailure ==
    [][/\ (last'.op = "fetchUsers.resume" /\ AnswerFailed(last'.resp))
          => /\ Store' = [users |-> users, loading |-> FALSE,
                          error |-> "Failed to fetch users. Please try again.",
                          selectedUser |-> selectedUser]
             /\ last'.call.outcome = "failure"
       /\ (last'.op = "fetchUserById.resume" /\ AnswerFailed(last'.resp))
          => /\ Store' = [users |-> users, loading |-> FALSE,
                          error |-> ExpectedUserMessage(last'.call.id),
                          selectedUser |-> NoUser]
             /\ last'.call.outcome = "failure"]_vars

\* A 2xx answer with a null body was handled as a failure of fetchUsers while
\* the store held a list.
C11_WitnessNullBody ==
    /\ UsersResumed
    /\ last.resp.kind = "ok" /\ last.resp.body.tag = "null"
    /\ users # <<>>
    /\ error = "Failed to fetch users. Please try again."

\* C12: no step of fetchUsers changes selectedUser and no step of
\* fetchUserById changes users.
C12_DisjointEffects ==
    [][/\ last'.op \in {"fetchUsers.start", "fetchUsers.issue", "fetchUsers.resume"}
          => selectedUser' = selectedUser
       /\ last'.op \in {"fetchUserById.start", "fetchUserById.lookup",
                        "fetchUserById.resume"}
          => users' = users]_vars

\* After a list refresh the selection is still a record the new list holds in
\* another revision.
C12_WitnessStaleSelection ==
    /\ UsersResumed
    /\ last.call.outcome = "success"
    /\ selectedUser # NoUser
    /\ \E i \in DOMAIN users :
          users[i].id = selectedUser.id /\ users[i] # selectedUser

\* C13: when a call resumes after another call completed while it was in
\* flight, and nothing is left in flight, loading is false and error is empty
\* if the resuming call succeeded, its own failure message if it failed,
\* whatever the earlier completion had stored.
C13_LastArrivalWins ==
    ((UsersResumed \/ UserResumed) /\ last.call.overtaken /\ calls = <<>>)
        => /\ loading = FALSE
           /\ error = (IF ~AnswerFailed(last.resp) THEN NoError
                       ELSE IF UsersResumed
                       THEN "Failed to fetch users. Please try again."
                       ELSE ExpectedUserMessage(last.call.id))

\* A fetchUserById answer arrived after the failure of a fetchUsers call that
\* was in flight with it, and erased its message.
C13_WitnessErased ==
    /\ UserResumed
    /\ last.call.overtaken
    /\ calls = <<>>
    /\ last.errorBefore = "Failed to fetch users. Please try again."
    /\ ~AnswerFailed(last.resp)
    /\ error = NoError

\* C14: a fetchUserById call in flight is never cancelled or superseded: it
\* stays in flight until its own answer arrives, and then commits even if a
\* newer fetchUserById call or a setSelectedUser was made in the meantime, so
\* selectedUser ends as its record, or empty with its message if it failed.
C14_NoCancellation ==
    /\ [](( UserResumed /\ last.call.superseded)
            => IF AnswerFailed(last.resp)
               THEN selectedUser = NoUser /\ error = ExpectedUserMessage(last.call.id)
               ELSE selectedUser = last.resp.body.user)
    /\ [][Len(calls') < Len(calls)
            => /\ Len(calls') = Len(calls) - 1
               /\ last'.op \in {"fetchUsers.resume", "fetchUserById.resume",
                                "fetchUserById.lookup"}
               /\ last'.call.pc = "done"]_vars

\* The answer for user 1 arrived last, after a newer selection had been asked
\* for, and user 1 is selected.
C14_WitnessLateArrival ==
    /\ UserResumed
    /\ last.call.superseded
    /\ last.call.overtaken
    /\ last.call.id = 1
    /\ ~AnswerFailed(last.resp)
    /\ selectedUser.id = 1
    /\ calls = <<>>

\* C15: requests correspond one-to-one to calls: the issue step of every
\* fetchUsers call sends exactly one list request and a cache-missing lookup
\* of fetchUserById exactly one single-user request, whether or not the same
\* target is already awaited; no other step sends a request (a failure is
\* not retried), and a call reaches its issue step only by being started.
C15_OneRequestPerCall ==
    [][/\ last'.op = "fetchUsers.issue"
          => /\ requests' = [requests EXCEPT !["/users"] = @ + 1]
             /\ last'.call.pc = "await"
       /\ (/\ last'.op = "fetchUserById.lookup"
           /\ \A i \in DOMAIN users : users[i].id # last'.call.id)
          => /\ requests' = [requests EXCEPT ![UserUrl(last'.call.id)] = @ + 1]
             /\ last'.call.pc = "await"
       /\ last'.op \notin {"fetchUsers.issue", "fetchUserById.lookup"}
          => requests' = requests
       /\ cur' # 0
          => last'.op \in {"fetchUsers.start", "fetchUserById.start"}]_vars

\* Two list requests are awaited at once, and two were sent.
C15_WitnessNoDedup ==
    /\ requests[UsersUrl] = 2
    /\ \E c, d \in CallIds :
          /\ c # d
          /\ calls[c].op = "fetchUsers" /\ calls[c].pc = "await"
          /\ calls[d].op = "fetchUsers" /\ calls[d].pc = "await"

\* C18: loading = true and a non-empty error never hold together: every step
\* that raises loading leaves error empty, and every step that stores an
\* error message leaves loading false.
C18_LoadingExcludesError ==
    /\ [](~(loading = TRUE /\ error # NoError))
    /\ [][/\ (loading' = TRUE /\ loading = FALSE) => error' = NoError
          /\ (error' # NoError /\ error' # error) => loading' = FALSE]_vars

\* A failure message was stored while another fetch was still in flight, and
\* loading is false.
C18_WitnessErrorInFlight ==
    /\ UsersResumed \/ UserResumed
    /\ AnswerFailed(last.resp)
    /\ error # NoError
    /\ loading = FALSE
    /\ \E c \in CallIds : calls[c].pc = "await"

\* C19: whenever no fetch call is in flight, loading is false.
C19_NotStuckLoading == (calls = <<>>) => loading = FALSE

\* All the calls of a behaviour have returned, the last of them after another
\* one that was in flight with it.
C19_WitnessAllReturned ==
    /\ calls = <<>>
    /\ started = MaxCalls
    /\ UsersResumed \/ UserResumed
    /\ last.call.overtaken
    /\ loading = FALSE

\* C17: the store has no timeout of its own.  A call that went to the network
\* returns only in the step that handles the transport's answer, and nothing
\* but a start, a cache lookup, an answer or clearError moves loading or
\* error, so an awaited request leaves loading = true and error empty for as
\* long as nothing else runs; with a transport that answers every request
\* and finitely many calls, every call returns and loading ends false.
C17_NoLocalTimeout ==
    /\ <>[](calls = <<>> /\ loading = FALSE)
    /\ [][/\ (Len(calls') < Len(calls) /\ last'.call.outcome # "hit")
             => /\ last'.op \in {"fetchUsers.resume", "fetchUserById.resume"}
                /\ last'.resp.kind \in {"ok", "status", "network"}
          /\ (loading' # loading \/ error' # error)
             => last'.op \in {"fetchUsers.start", "fetchUserById.start",
                              "fetchUserById.lookup", "fetchUsers.resume",
                              "fetchUserById.resume", "clearError"}
          /\ (last'.op = "fetchUsers.issue"
              \/ (last'.op = "fetchUserById.lookup" /\ last'.call.pc = "await"))
             => loading' = TRUE /\ error' = NoError]_vars

\* Every call of a behaviour has returned, the last one on a network failure,
\* and loading is false.
C17_WitnessQuiescent ==
    /\ started = MaxCalls
    /\ calls = <<>>
    /\ last.resp.kind = "network"
    /\ loading = FALSE

\* C16 as stated: while the detail view shows a route id that parseInt turns
\* into NaN, neither its mount effect nor its Retry handler calls
\* fetchUserById, so no call is ever made with NaN.
C16_AsStated ==
    /\ (route.page = "detail" /\ IsNaN(ParseInt(route.id)))
          => last.op # "fetchUserById.start"
    /\ \A c \in CallIds : calls[c].op = "fetchUserById" => ~IsNaN(calls[c].id)

====
